---- MODULE Spec2Model ----
(***************************************************************************)
(* State machine of the task-router orchestrator: the in-memory job state  *)
(* index (JobStateManager), the events consumer (SQSMessaging.consumeEvents *)
(* with the handler of TaskRouterApp.startEventConsumer), the two intake   *)
(* paths (POST /api/router/jobs and the router-jobs queue consumer), and   *)
(* the stage dispatch of TaskRouter (storePayload, then sendMessage), and   *)
(* the stage workers' message loop (processMessage of the agents).         *)
(* Every await of the code is a step boundary; the synchronous code        *)
(* between two awaits is one action.                                       *)
(***************************************************************************)
EXTENDS Integers, Sequences, FiniteSets, TLC

\* ---- bounds of the model ------------------------------------------------
MaxEvents == 1       \* stray completion events
MaxQueue == 1        \* undeleted messages on the events queue when a sender adds one
MaxPosts == 2        \* POST requests
MaxSubmissions == 1  \* messages placed on the router-jobs queue
MaxFaults == 1       \* rejected S3 / SQS calls
MaxTime == 4         \* clock ticks of 12 hours
MaxReaperEvents == 2 \* stray completion events while the clock runs
MaxWebTime == 6      \* the agent-web clock, in ticks of 30 seconds
MaxWebPosts == 4     \* POST requests to agent-web
MaxPoisonQueue == 3  \* messages on the events queue beside a poison message
MaxArrivals == 3     \* messages that arrive beside a poison message
MaxDispatch == 3     \* calls of sendTaskMessage on its own

\* the environments explored: each bounds what may still arrive from outside
Profiles ==
    { [strays |-> MaxEvents, faults |-> 0, posts |-> 1, subs |-> 0],
      [strays |-> 0, faults |-> MaxFaults, posts |-> 1, subs |-> 0],
      [strays |-> 0, faults |-> 0, posts |-> MaxPosts, subs |-> 0],
      [strays |-> 0, faults |-> 0, posts |-> 1, subs |-> MaxSubmissions],
      [strays |-> 0, faults |-> MaxFaults, posts |-> 0, subs |-> MaxSubmissions] }

\* the environment in which the clock runs and the cleanup timer fires
ReaperProfile == [strays |-> MaxReaperEvents, faults |-> 0, posts |-> MaxPosts, subs |-> 0]

\* the default maxAge of cleanup, 24 hours, in units of 12 hours
maxAge == 2

\* RATE_LIMIT_WINDOW of agent-web, 60 seconds, in units of 30 seconds
RATE_LIMIT_WINDOW == 2

\* ---- values ---------------------------------------------------------------
JobIds == {"J1", "J2"}

\* requiredTasks of completeTask, in the order of the array literal
requiredTasks == <<"research", "product_manager", "drawer", "designer", "coder">>

Range(s) == {s[i] : i \in 1..Len(s)}

\* task_type is a free string of the completion event: the five stage names
\* and one name outside them
TaskTypes == Range(requiredTasks) \cup {"writer"}

NoJob == [status |-> "absent"]
NoError == "undefined"
NoMsg == "none"
\* res before any request was answered
NoResponse == [status |-> "none", job_id |-> "none", body |-> "none"]
\* rateLimitStore.get(ip) of an ip without entry
NoStamp == -1
\* completedAt of a job that has not ended
NoDate == -1

\* a message body on the events queue, after JSON.parse: a worker's completion
\* event, or the router's own announcement of publishDone, which carries jobId
\* but neither job_id, task_type nor status
CompletionEvent(j, t, s, e) ==
    [event_type |-> "completion", job_id |-> j, task_type |-> t, status |-> s, error |-> e,
     jobId |-> "undefined"]

\* an announcement in the shape of a completion event of the last stage
publishDoneBodyWithTask(j) ==
    [event_type |-> "job_completed", job_id |-> j, task_type |-> "coder",
     status |-> "success", error |-> NoError, jobId |-> j]

\* publishDone: the body { jobId, timestamp, source, event_type: 'job_completed' }
publishDoneBody(j) ==
    [event_type |-> "job_completed", job_id |-> "undefined", task_type |-> "undefined",
     status |-> "undefined", error |-> NoError, jobId |-> j]

\* a message whose Body is not JSON: JSON.parse throws on it
PoisonBody ==
    [event_type |-> "unparseable", job_id |-> "undefined", task_type |-> "undefined",
     status |-> "undefined", error |-> NoError, jobId |-> "undefined"]

\* what reaches the events queue outside the workers' normal run: SQS
\* duplicates, late or out-of-order events, foreign stage names, a poison body
EventInputs ==
    {PoisonBody} \cup
    {CompletionEvent(j, t, "success", NoError) : j \in JobIds, t \in TaskTypes}
      \cup {CompletionEvent(j, "research", "in_progress", NoError) : j \in JobIds}
      \cup {CompletionEvent(j, "research", "failure", "crash") : j \in JobIds}
      \cup {CompletionEvent(j, "drawer", "error", "timeout") : j \in JobIds}

\* a brief: which of the two required fields are present (truthy)
Briefs == [product : BOOLEAN, audience : BOOLEAN]

\* the briefs sent through the router-jobs queue: complete, without audience, empty
QueueBriefs == {b \in Briefs : b.audience => b.product}

\* a message body on the router-jobs queue: the start_job format that names a
\* stored brief, or the brief inline
SubmissionInputs ==
    [format : {"start_job", "inline"}, job_id : {"J1"}, brief : QueueBriefs]

VARIABLES
    jobs,             \* JobStateManager.jobs: job id -> JobStatus, or NoJob
    events,           \* messages on the events queue (not yet deleted)
    ec,               \* the events consumer: position, message in hand, handler error
    submissions,      \* messages on the router-jobs queue (not yet deleted)
    sc,               \* the router-jobs consumer: position, message in hand
    execPut,          \* per job: executeJob calls waiting at storePayload
    execSend,         \* per job: executeJob calls waiting at sqs.sendMessage
    blobs,            \* S3 keys written by storePayload: <<job, task>> is {job}/{task}.json
    results,          \* S3 keys written by the workers: <<job, name>> is {job}/{name}
    stageQ,           \* per job and stage: task messages on the stage queue (not yet deleted)
    worker,           \* per stage: the worker's position and the job of its message in hand
    sqsMessagesSent,  \* per job and queue: sendMessage calls that succeeded
    activeJobs,       \* the activeJobs gauge
    faults,           \* S3 / SQS calls that may still reject
    strays,           \* stray completion events that may still arrive
    posts,            \* POST requests that may still arrive
    subs,             \* submission messages that may still arrive
    now,              \* the clock read by new Date(), in units of 12 hours
    reaped,           \* records deleted by cleanup so far
    res,              \* the response to the last POST /api/router/jobs
    isShuttingDown,   \* TaskRouterApp.isShuttingDown
    exited,           \* process.exit has been called
    bus,              \* sendTaskMessage on its own: the bucket's objects and the messages sent
    web               \* the agent-web tier: its clock, rateLimitStore and last response

vars == <<jobs, events, ec, submissions, sc, execPut, execSend, blobs, results,
          stageQ, worker, sqsMessagesSent, activeJobs, faults, strays, posts, subs,
          now, reaped, res, isShuttingDown, web, exited, bus>>

Stages == Range(requiredTasks)

\* the queue labels of the sqsMessagesSent counter
Queues == Stages \cup {"events"}

\* ---- JobStateManager ------------------------------------------------------
\* a createJob that builds the index anew around the one entry
createJobInNewIndex(js, jobId) ==
    [j \in JobIds |->
        IF j = jobId
        THEN [status |-> "queued", completedTasks |-> <<>>, error |-> NoError,
              startedAt |-> now, completedAt |-> NoDate]
        ELSE NoJob]

\* createJob: the map entry is set unconditionally
createJob(js, jobId) ==
    [js EXCEPT ![jobId] = [status |-> "queued", completedTasks |-> <<>>, error |-> NoError,
                           startedAt |-> now, completedAt |-> NoDate]]

\* startJob (the job is present at both call sites)
startJob(js, jobId) ==
    [js EXCEPT ![jobId].status = "in_progress"]

includes(seq, x) == x \in Range(seq)

allTasksComplete(completedTasks) ==
    \A i \in 1..Len(requiredTasks) : includes(completedTasks, requiredTasks[i])

\* completeTask that creates a record for a job id it does not find
completeTaskUpsert(js, event) ==
    IF event.job_id \in JobIds /\ js[event.job_id] = NoJob /\ event.status # "in_progress"
    THEN [jobs |-> [js EXCEPT ![event.job_id] =
                        [status |-> "in_progress", completedTasks |-> <<event.task_type>>,
                         error |-> NoError, startedAt |-> now, completedAt |-> NoDate]],
          ret |-> FALSE]
    ELSE [jobs |-> js, ret |-> FALSE]

\* completeTask: the job map after the call, and the returned boolean
completeTask(js, event) ==
    IF event.job_id \notin JobIds \/ js[event.job_id] = NoJob
    THEN [jobs |-> js, ret |-> FALSE]
    ELSE IF event.status = "in_progress"
    THEN [jobs |-> js, ret |-> FALSE]
    ELSE IF event.status = "failure" \/ event.status = "error"
    THEN [jobs |-> [js EXCEPT ![event.job_id].status = "failed",
                              ![event.job_id].error = event.error,
                              ![event.job_id].completedAt = now],
          ret |-> TRUE]
    ELSE LET job == js[event.job_id]
             pushed == IF includes(job.completedTasks, event.task_type)
                       THEN job.completedTasks
                       ELSE Append(job.completedTasks, event.task_type)
         IN IF allTasksComplete(pushed)
            THEN [jobs |-> [js EXCEPT ![event.job_id].completedTasks = pushed,
                                      ![event.job_id].status = "completed",
                                      ![event.job_id].completedAt = now],
                  ret |-> TRUE]
            ELSE [jobs |-> [js EXCEPT ![event.job_id].completedTasks = pushed],
                  ret |-> FALSE]

\* getNextTasks: the first stage of the dependency chain not yet completed
getNextTasks(completedTasks) ==
    IF ~includes(completedTasks, "research") THEN <<"research">>
    ELSE IF ~includes(completedTasks, "product_manager") THEN <<"product_manager">>
    ELSE IF ~includes(completedTasks, "drawer") THEN <<"drawer">>
    ELSE IF ~includes(completedTasks, "designer") THEN <<"designer">>
    ELSE IF ~includes(completedTasks, "coder") THEN <<"coder">>
    ELSE <<>>

\* ---- TaskRouter -------------------------------------------------------------
\* a switch without the designer case: the coder is never dispatched
handleTaskCompletionStopsAtDesigner(taskType) ==
    CASE taskType = "research" -> [pc |-> "fetch", next |-> "product_manager"]
      [] taskType = "product_manager" -> [pc |-> "fetch", next |-> "drawer"]
      [] taskType = "drawer" -> [pc |-> "fetch", next |-> "designer"]
      [] taskType = "coder" -> [pc |-> "publish", next |-> "events"]
      [] OTHER -> [pc |-> "delete", next |-> "none"]

\* handleTaskCompletion: the switch on taskType; what the handler awaits first
handleTaskCompletion(taskType) ==
    CASE taskType = "research" -> [pc |-> "fetch", next |-> "product_manager"]
      [] taskType = "product_manager" -> [pc |-> "fetch", next |-> "drawer"]
      [] taskType = "drawer" -> [pc |-> "fetch", next |-> "designer"]
      [] taskType = "designer" -> [pc |-> "fetch", next |-> "coder"]
      [] taskType = "coder" -> [pc |-> "publish", next |-> "events"]
      [] OTHER -> [pc |-> "delete", next |-> "none"]

\* before: the job's completedTasks as the handler found them (<<>> for no job);
\* known: whether the handler found a record for the event's job_id
Idle == [pc |-> "idle", msg |-> NoMsg, next |-> "none", failed |-> FALSE, before |-> <<>>,
         known |-> FALSE]

completedBefore(js, event) ==
    IF event.job_id \in JobIds /\ js[event.job_id] # NoJob
    THEN js[event.job_id].completedTasks
    ELSE <<>>

hasJob(js, event) == event.job_id \in JobIds /\ js[event.job_id] # NoJob

\* getStats: the size of the map and the number of jobs in each status
getStats(js) ==
    [total |-> Cardinality({j \in JobIds : js[j] # NoJob}),
     queued |-> Cardinality({j \in JobIds : js[j].status = "queued"}),
     in_progress |-> Cardinality({j \in JobIds : js[j].status = "in_progress"}),
     completed |-> Cardinality({j \in JobIds : js[j].status = "completed"}),
     failed |-> Cardinality({j \in JobIds : js[j].status = "failed"})]

\* ---- APIServer GET /api/router/tasks -----------------------------------------
\* totalTasks of calculateJobProgress
totalTasks == 3

\* Math.round of the quotient n / d of two naturals: halves round up
round(n, d) == (2 * n + d) \div (2 * d)

\* calculateJobProgress: Math.round((completedTasks.length / totalTasks) * 100)
calculateJobProgress(job) == round(Len(job.completedTasks) * 100, totalTasks)

\* the tasks listed by the endpoint: one per job of getAllJobs
tasks(js) ==
    {[job_id |-> j, status |-> js[j].status, progress |-> calculateJobProgress(js[j])] :
        j \in {k \in JobIds : js[k] # NoJob}}

WorkerIdle == [pc |-> "idle", job |-> "none"]

\* ---- S3Storage.storePayload and SQSMessaging.sendTaskMessage on their own ----
Payloads == {"x", "y"}
NoObject == "absent"
NoDispatch == [jobId |-> "none", task |-> "none", payload |-> "none"]

\* the key `${jobId}/${task}.json`
payloadKey(jobId, task) == <<jobId, task, "json">>
Keys == {payloadKey(j, t) : j \in JobIds, t \in Stages}

\* JSON.stringify(data, null, 2)
stringify(data) == <<"json", data>>

\* objects: the bucket; sent: the task messages in order; n: the calls made;
\* last: the arguments of the last call that resolved; left: calls to come
BusStart ==
    [objects |-> [k \in Keys |-> NoObject], sent |-> <<>>, n |-> 0,
     last |-> NoDispatch, left |-> MaxDispatch]

\* store: putObject replaces the object under the key
storeData(objects, key, data) == [objects EXCEPT ![key] = stringify(data)]

\* a storePayload that keeps every version: the object of a call is stored
\* under the key of the task only while that key is free
storePayloadOnce(objects, jobId, task, payload) ==
    IF objects[payloadKey(jobId, task)] = NoObject
    THEN storeData(objects, payloadKey(jobId, task), payload)
    ELSE [objects EXCEPT ![payloadKey(jobId, task)] = <<"versions", @, stringify(payload)>>]

storePayload(objects, jobId, task, payload) ==
    storeData(objects, payloadKey(jobId, task), payload)

\* sendTaskMessage: storePayload, then sendMessage; either may reject, and the
\* error is rethrown after what was done before it
sendTaskMessage(b, jobId, task, payload, putOk, sendOk) ==
    IF ~putOk THEN [b EXCEPT !.n = @ + 1, !.left = @ - 1, !.last = NoDispatch]
    ELSE LET objects == storePayload(b.objects, jobId, task, payload)
         IN IF ~sendOk
            THEN [b EXCEPT !.objects = objects, !.n = @ + 1, !.left = @ - 1,
                           !.last = NoDispatch]
            ELSE [b EXCEPT !.objects = objects,
                           !.sent = Append(@, [job_id |-> jobId, task_type |-> task,
                                               payload_key |-> payloadKey(jobId, task),
                                               timestamp |-> b.n, source |-> "task-router"]),
                           !.n = @ + 1, !.left = @ - 1,
                           !.last = [jobId |-> jobId, task |-> task, payload |-> payload]]

\* ---- agent-web: POST /api/jobs behind the rate limiter -----------------------
ClientIPs == {"10.0.0.1", "10.0.0.2"}

\* the module state of the route after load; Date.now() is positive.
\* passed is the time of the last request of each ip that checkRateLimit let
\* through, created the number of jobs handed to the task-router
WebStart ==
    [now |-> 1,
     rateLimitStore |-> [ip \in ClientIPs |-> NoStamp],
     passed |-> [ip \in ClientIPs |-> NoStamp],
     res |-> [status |-> "none", retryAfter |-> "none", ip |-> "none"],
     created |-> 0,
     posts |-> MaxWebPosts]

\* checkRateLimit that stamps only the first request of an ip
checkRateLimitFirstOnly(store, ip, t) ==
    IF store[ip] = NoStamp \/ store[ip] = 0
    THEN [store |-> [store EXCEPT ![ip] = t], ret |-> TRUE]
    ELSE IF t - store[ip] >= RATE_LIMIT_WINDOW
    THEN [store |-> store, ret |-> TRUE]
    ELSE [store |-> store, ret |-> FALSE]

\* checkRateLimit: the store after the call and the returned boolean;
\* !lastRequest holds for a missing entry and for a stamp of 0
checkRateLimit(store, ip, t) ==
    IF store[ip] = NoStamp \/ store[ip] = 0
    THEN [store |-> [store EXCEPT ![ip] = t], ret |-> TRUE]
    ELSE IF t - store[ip] >= RATE_LIMIT_WINDOW
    THEN [store |-> [store EXCEPT ![ip] = t], ret |-> TRUE]
    ELSE [store |-> store, ret |-> FALSE]

\* cleanupRateLimitStore: entries older than the window are deleted
cleanupRateLimitStore(store, t) ==
    [ip \in ClientIPs |->
        IF store[ip] # NoStamp /\ t - store[ip] > RATE_LIMIT_WINDOW THEN NoStamp ELSE store[ip]]

\* the state after construction, in the environment p
Start(p) ==
    /\ jobs = [j \in JobIds |-> NoJob]
    /\ events = {}
    /\ ec = Idle
    /\ submissions = {}
    /\ sc = [pc |-> "idle", msg |-> NoMsg]
    /\ execPut = [j \in JobIds |-> 0]
    /\ execSend = [j \in JobIds |-> 0]
    /\ blobs = {}
    /\ results = {}
    /\ stageQ = [j \in JobIds |-> [s \in Stages |-> 0]]
    /\ worker = [s \in Stages |-> WorkerIdle]
    /\ sqsMessagesSent = [j \in JobIds |-> [q \in Queues |-> 0]]
    /\ activeJobs = 0
    /\ strays = p.strays
    /\ faults = p.faults
    /\ posts = p.posts
    /\ subs = p.subs
    /\ now = 0
    /\ reaped = 0
    /\ res = NoResponse
    /\ isShuttingDown = FALSE
    /\ exited = FALSE
    /\ bus = BusStart
    /\ web = WebStart

Init == \E p \in Profiles : Start(p)

\* ---- a stray completion event arrives on the events queue ------------------
DeliverEvent(ev) ==
    /\ strays > 0
    /\ Cardinality(events) < MaxQueue
    /\ ev \notin events
    /\ events' = events \cup {ev}
    /\ strays' = strays - 1
    /\ UNCHANGED <<jobs, ec, submissions, sc, execPut, execSend, blobs, results,
                   stageQ, worker, sqsMessagesSent, activeJobs, faults, posts, subs,
                   now, reaped, res, isShuttingDown, web, exited, bus>>

\* ---- SQSMessaging.consumeEvents with the startEventConsumer handler -------
\* receiveMessage returns, the body is parsed and the handler runs up to its
\* first await
EventHandle(m) ==
    /\ ec.pc = "idle"
    /\ m \in events
    /\ LET entered == [Idle EXCEPT !.msg = m, !.before = completedBefore(jobs, m),
                                   !.known = hasJob(jobs, m)]
       IN IF m = PoisonBody
          THEN \* JSON.parse throws: the inner catch of consumeEvents
               /\ ec' = [entered EXCEPT !.pc = "caught"]
               /\ UNCHANGED <<jobs, activeJobs>>
          ELSE IF m.status = "in_progress"
          THEN /\ ec' = [entered EXCEPT !.pc = "delete"]
               /\ UNCHANGED <<jobs, activeJobs>>
          ELSE LET r == completeTask(jobs, m)
               IN /\ jobs' = r.jobs
                  /\ IF r.ret
                     THEN \* getJob finds the job: completeTask returned true for it
                          /\ activeJobs' = activeJobs - 1
                          /\ ec' = [entered EXCEPT !.pc = "delete"]
                     ELSE /\ UNCHANGED activeJobs
                          /\ IF m.status = "success"
                             THEN LET h == handleTaskCompletion(m.task_type)
                                  IN ec' = [entered EXCEPT !.pc = h.pc, !.next = h.next]
                             ELSE ec' = [entered EXCEPT !.pc = "delete"]
    /\ UNCHANGED <<events, submissions, sc, execPut, execSend, blobs, results,
                   stageQ, worker, sqsMessagesSent, faults, strays, posts, subs,
                   now, reaped, res, isShuttingDown, web, exited, bus>>

\* the key under which the agent of a stage stores its result, named after
\* the task type throughout (as S3Storage.storeResult of the task-router does)
resultKeyByTaskType(jobId, task) ==
    CASE task = "research" -> <<jobId, "research-result.json">>
      [] task = "product_manager" -> <<jobId, "product_manager-result.json">>
      [] task = "drawer" -> <<jobId, "drawer-result.json">>
      [] task = "designer" -> <<jobId, "designer-result.json">>
      [] OTHER -> <<jobId, "coder-result.json">>

\* resultKey of run<Agent>: the key under which the agent stores its result
resultKey(jobId, task) ==
    CASE task = "research" -> <<jobId, "research-result.json">>
      [] task = "product_manager" -> <<jobId, "product-manager-result.json">>
      [] task = "drawer" -> <<jobId, "drawer-result.json">>
      [] task = "designer" -> <<jobId, "designer-result.json">>
      [] OTHER -> <<jobId, "coder-result.json">>

\* the key execute<Next>Task reads after the success event of taskType
inputKey(jobId, taskType) ==
    CASE taskType = "research" -> <<jobId, "research-result.json">>
      [] taskType = "product_manager" -> <<jobId, "product-manager-result.json">>
      [] taskType = "drawer" -> <<jobId, "drawer-result.json">>
      [] OTHER -> <<jobId, "designer-result.json">>

\* the handler's catch: the error is logged and the handler returns normally,
\* so consumeEvents goes on to deleteMessage
handlerCatch(c) == [c EXCEPT !.pc = "delete", !.failed = TRUE]

\* execute<Next>Task: storage.get of the predecessor's result resolves, or
\* rejects because the key is absent
EventFetch ==
    /\ ec.pc = "fetch"
    /\ IF inputKey(ec.msg.job_id, ec.msg.task_type) \in results
       THEN ec' = [ec EXCEPT !.pc = "put"]
       ELSE ec' = handlerCatch(ec)
    /\ UNCHANGED <<jobs, events, submissions, sc, execPut, execSend, blobs, results,
                   stageQ, worker, sqsMessagesSent, activeJobs, faults, strays, posts, subs,
                   now, reaped, res, isShuttingDown, web, exited, bus>>

\* sendTaskMessage with the storePayload call left out
EventPutSkipped ==
    /\ ec.pc = "put"
    /\ ec' = [ec EXCEPT !.pc = "send"]
    /\ UNCHANGED <<jobs, events, submissions, sc, execPut, execSend, blobs, results,
                   stageQ, worker, sqsMessagesSent, activeJobs, faults, strays, posts, subs,
                   now, reaped, res, isShuttingDown, web, exited, bus>>

\* sendTaskMessage: storePayload resolves
EventPut ==
    /\ ec.pc = "put"
    /\ blobs' = blobs \cup {<<ec.msg.job_id, ec.next>>}
    /\ ec' = [ec EXCEPT !.pc = "send"]
    /\ UNCHANGED <<jobs, events, submissions, sc, execPut, execSend, results,
                   stageQ, worker, sqsMessagesSent, activeJobs, faults, strays, posts, subs,
                   now, reaped, res, isShuttingDown, web, exited, bus>>

\* sendTaskMessage: sqs.sendMessage to the stage queue resolves
EventSend ==
    /\ ec.pc = "send"
    /\ stageQ' = [stageQ EXCEPT ![ec.msg.job_id][ec.next] = @ + 1]
    /\ sqsMessagesSent' = [sqsMessagesSent EXCEPT ![ec.msg.job_id][ec.next] = @ + 1]
    /\ ec' = [ec EXCEPT !.pc = "delete"]
    /\ UNCHANGED <<jobs, events, submissions, sc, execPut, execSend, blobs, results,
                   worker, activeJobs, faults, strays, posts, subs,
                   now, reaped, res, isShuttingDown, web, exited, bus>>

\* completeJob: publishDone sends the job_completed body to the events queue
EventPublish ==
    /\ ec.pc = "publish"
    /\ events' = events \cup {publishDoneBody(ec.msg.job_id)}
    /\ sqsMessagesSent' = [sqsMessagesSent EXCEPT ![ec.msg.job_id]["events"] = @ + 1]
    /\ ec' = [ec EXCEPT !.pc = "delete"]
    /\ UNCHANGED <<jobs, submissions, sc, execPut, execSend, blobs, results,
                   stageQ, worker, activeJobs, faults, strays, posts, subs,
                   now, reaped, res, isShuttingDown, web, exited, bus>>

\* any of the awaited S3 / SQS calls of the handler rejects
EventFault ==
    /\ ec.pc \in {"fetch", "put", "send", "publish"}
    /\ faults > 0
    /\ faults' = faults - 1
    /\ ec' = handlerCatch(ec)
    /\ UNCHANGED <<jobs, events, submissions, sc, execPut, execSend, blobs, results,
                   stageQ, worker, sqsMessagesSent, activeJobs, strays, posts, subs,
                   now, reaped, res, isShuttingDown, web, exited, bus>>

\* a deleteMessage that leaves in_progress events on the queue
EventDeleteKeepsInProgress ==
    /\ ec.pc = "delete"
    /\ events' = IF ec.msg.status = "in_progress" THEN events ELSE events \ {ec.msg}
    /\ ec' = Idle
    /\ UNCHANGED <<jobs, submissions, sc, execPut, execSend, blobs, results,
                   stageQ, worker, sqsMessagesSent, activeJobs, faults, strays, posts, subs,
                   now, reaped, res, isShuttingDown, web, exited, bus>>

\* consumeEvents: deleteMessage resolves
EventDelete ==
    /\ ec.pc = "delete"
    /\ events' = events \ {ec.msg}
    /\ ec' = Idle
    /\ UNCHANGED <<jobs, submissions, sc, execPut, execSend, blobs, results,
                   stageQ, worker, sqsMessagesSent, activeJobs, faults, strays, posts, subs,
                   now, reaped, res, isShuttingDown, web, exited, bus>>

\* consumeEvents: deleteMessage rejects; the inner catch logs, the message stays
EventDeleteFault ==
    /\ ec.pc = "delete"
    /\ faults > 0
    /\ faults' = faults - 1
    /\ ec' = Idle
    /\ UNCHANGED <<jobs, events, submissions, sc, execPut, execSend, blobs, results,
                   stageQ, worker, sqsMessagesSent, activeJobs, strays, posts, subs,
                   now, reaped, res, isShuttingDown, web, exited, bus>>

\* an inner catch that ends the polling loop
EventCaughtLeavesLoop ==
    /\ ec.pc = "caught"
    /\ ec' = [ec EXCEPT !.pc = "stopped"]
    /\ UNCHANGED <<jobs, events, submissions, sc, execPut, execSend, blobs, results,
                   stageQ, worker, sqsMessagesSent, activeJobs, faults, strays, posts, subs,
                   now, reaped, res, isShuttingDown, web, exited, bus>>

\* consumeEvents: the inner catch has logged the error of this message; the
\* loop goes on without deleteMessage
EventCaught ==
    /\ ec.pc = "caught"
    /\ ec' = Idle
    /\ UNCHANGED <<jobs, events, submissions, sc, execPut, execSend, blobs, results,
                   stageQ, worker, sqsMessagesSent, activeJobs, faults, strays, posts, subs,
                   now, reaped, res, isShuttingDown, web, exited, bus>>

\* ---- admission: the code shared by both intake paths -----------------------
\* an admission that leaves startJob to a later turn of the event loop
admitJobsWithoutStart(js, jobId) == createJob(js, jobId)

\* createJob, startJob, activeJobs.inc(), and executeJob run up to its first
\* await, the putObject of storePayload; the caller does not await executeJob
admitJobs(js, jobId) == startJob(createJob(js, jobId), jobId)

\* ---- APIServer POST /api/router/jobs ---------------------------------------
\* the POST handler validating product only
HttpPostProductOnly(j, brief) ==
    /\ posts > 0
    /\ posts' = posts - 1
    /\ IF ~brief.product
       THEN /\ res' = [status |-> "400", job_id |-> "none", body |-> "Missing required fields"]
            /\ UNCHANGED <<jobs, activeJobs, execPut>>
       ELSE /\ jobs' = admitJobs(jobs, j)
            /\ activeJobs' = activeJobs + 1
            /\ execPut' = [execPut EXCEPT ![j] = @ + 1]
            /\ res' = [status |-> "201", job_id |-> j, body |-> "queued"]
    /\ UNCHANGED <<events, ec, submissions, sc, execSend, blobs, results,
                   stageQ, worker, sqsMessagesSent, faults, strays, subs,
                   now, reaped, isShuttingDown, web, exited, bus>>

HttpPost(j, brief) ==
    /\ posts > 0
    /\ posts' = posts - 1
    /\ IF ~brief.product \/ ~brief.audience
       THEN /\ res' = [status |-> "400", job_id |-> "none", body |-> "Missing required fields"]
            /\ UNCHANGED <<jobs, activeJobs, execPut>>
       ELSE /\ jobs' = admitJobs(jobs, j)
            /\ activeJobs' = activeJobs + 1
            /\ execPut' = [execPut EXCEPT ![j] = @ + 1]
            /\ res' = [status |-> "201", job_id |-> j, body |-> "queued"]
    /\ UNCHANGED <<events, ec, submissions, sc, execSend, blobs, results,
                   stageQ, worker, sqsMessagesSent, faults, strays, subs,
                   now, reaped, isShuttingDown, web, exited, bus>>

\* ---- TaskRouter.executeJob, continuing in the background -------------------
\* executeResearchTask: storePayload of {job}/research.json resolves
ExecPut(j) ==
    /\ execPut[j] > 0
    /\ execPut' = [execPut EXCEPT ![j] = @ - 1]
    /\ execSend' = [execSend EXCEPT ![j] = @ + 1]
    /\ blobs' = blobs \cup {<<j, "research">>}
    /\ UNCHANGED <<jobs, events, ec, submissions, sc, results,
                   stageQ, worker, sqsMessagesSent, activeJobs, faults, strays, posts, subs,
                   now, reaped, res, isShuttingDown, web, exited, bus>>

\* executeResearchTask: sendMessage to the research queue resolves
ExecSend(j) ==
    /\ execSend[j] > 0
    /\ execSend' = [execSend EXCEPT ![j] = @ - 1]
    /\ stageQ' = [stageQ EXCEPT ![j]["research"] = @ + 1]
    /\ sqsMessagesSent' = [sqsMessagesSent EXCEPT ![j]["research"] = @ + 1]
    /\ UNCHANGED <<jobs, events, ec, submissions, sc, execPut, blobs, results,
                   worker, activeJobs, faults, strays, posts, subs,
                   now, reaped, res, isShuttingDown, web, exited, bus>>

\* either call rejects: executeJob rethrows, the caller's .catch decrements
\* the gauge and leaves the job record as it is
ExecFault(j) ==
    /\ faults > 0
    /\ faults' = faults - 1
    /\ \/ /\ execPut[j] > 0
          /\ execPut' = [execPut EXCEPT ![j] = @ - 1]
          /\ UNCHANGED execSend
       \/ /\ execSend[j] > 0
          /\ execSend' = [execSend EXCEPT ![j] = @ - 1]
          /\ UNCHANGED execPut
    /\ activeJobs' = activeJobs - 1
    /\ UNCHANGED <<jobs, events, ec, submissions, sc, blobs, results,
                   stageQ, worker, sqsMessagesSent, strays, posts, subs,
                   now, reaped, res, isShuttingDown, web, exited, bus>>

\* ---- the router-jobs queue ---------------------------------------------------
EnqueueSubmission(m) ==
    /\ subs > 0
    /\ m \notin submissions
    /\ submissions' = submissions \cup {m}
    /\ subs' = subs - 1
    /\ UNCHANGED <<jobs, events, ec, sc, execPut, execSend, blobs, results,
                   stageQ, worker, sqsMessagesSent, activeJobs, faults, strays, posts,
                   now, reaped, res, isShuttingDown, web, exited, bus>>

\* consumeJobRequests: a message is received and parsed; the start_job format
\* awaits storage.get, the inline format runs the handler at once, any other
\* body is skipped without deleting it
SubReceive(m) ==
    /\ sc.pc = "idle"
    /\ m \in submissions
    /\ IF m.format = "start_job"
       THEN /\ sc' = [pc |-> "get", msg |-> m]
            /\ UNCHANGED <<jobs, activeJobs, execPut>>
       ELSE IF m.brief.product \/ m.brief.audience
       THEN /\ jobs' = admitJobs(jobs, m.job_id)
            /\ activeJobs' = activeJobs + 1
            /\ execPut' = [execPut EXCEPT ![m.job_id] = @ + 1]
            /\ sc' = [pc |-> "delete", msg |-> m]
       ELSE UNCHANGED <<jobs, activeJobs, execPut, sc>>
    /\ UNCHANGED <<events, ec, submissions, execSend, blobs, results,
                   stageQ, worker, sqsMessagesSent, faults, strays, posts, subs,
                   now, reaped, res, isShuttingDown, web, exited, bus>>

\* storage.get(payload_key) resolves with the stored brief; the handler runs
SubGet ==
    /\ sc.pc = "get"
    /\ jobs' = admitJobs(jobs, sc.msg.job_id)
    /\ activeJobs' = activeJobs + 1
    /\ execPut' = [execPut EXCEPT ![sc.msg.job_id] = @ + 1]
    /\ sc' = [sc EXCEPT !.pc = "delete"]
    /\ UNCHANGED <<events, ec, submissions, execSend, blobs, results,
                   stageQ, worker, sqsMessagesSent, faults, strays, posts, subs,
                   now, reaped, res, isShuttingDown, web, exited, bus>>

\* storage.get or deleteMessage rejects: the inner catch logs, nothing is deleted
SubFault ==
    /\ sc.pc \in {"get", "delete"}
    /\ faults > 0
    /\ faults' = faults - 1
    /\ sc' = [pc |-> "idle", msg |-> NoMsg]
    /\ UNCHANGED <<jobs, events, ec, submissions, execPut, execSend, blobs, results,
                   stageQ, worker, sqsMessagesSent, activeJobs, strays, posts, subs,
                   now, reaped, res, isShuttingDown, web, exited, bus>>

\* deleteMessage resolves
SubDelete ==
    /\ sc.pc = "delete"
    /\ submissions' = submissions \ {sc.msg}
    /\ sc' = [pc |-> "idle", msg |-> NoMsg]
    /\ UNCHANGED <<jobs, events, ec, execPut, execSend, blobs, results,
                   stageQ, worker, sqsMessagesSent, activeJobs, faults, strays, posts, subs,
                   now, reaped, res, isShuttingDown, web, exited, bus>>

\* ---- the stage workers: processMessage of each agent -------------------------
\* a task message is received and parsed; sendTaskResult places the
\* in_progress event on the events queue
WorkerReceive(s, j) ==
    /\ worker[s].pc = "idle"
    /\ stageQ[j][s] > 0
    /\ Cardinality(events) < MaxQueue
    /\ events' = events \cup {CompletionEvent(j, s, "in_progress", NoError)}
    /\ worker' = [worker EXCEPT ![s] = [pc |-> "run", job |-> j]]
    /\ UNCHANGED <<jobs, ec, submissions, sc, execPut, execSend, blobs, results,
                   stageQ, sqsMessagesSent, activeJobs, faults, strays, posts, subs,
                   now, reaped, res, isShuttingDown, web, exited, bus>>

\* the payload is read and the agent runs; its last step stores the result
WorkerRun(s) ==
    /\ worker[s].pc = "run"
    /\ <<worker[s].job, s>> \in blobs
    /\ results' = results \cup {resultKey(worker[s].job, s)}
    /\ worker' = [worker EXCEPT ![s].pc = "report"]
    /\ UNCHANGED <<jobs, events, ec, submissions, sc, execPut, execSend, blobs,
                   stageQ, sqsMessagesSent, activeJobs, faults, strays, posts, subs,
                   now, reaped, res, isShuttingDown, web, exited, bus>>

\* sendTaskResult places the success event on the events queue
WorkerReport(s) ==
    /\ worker[s].pc = "report"
    /\ Cardinality(events) < MaxQueue
    /\ events' = events \cup {CompletionEvent(worker[s].job, s, "success", NoError)}
    /\ worker' = [worker EXCEPT ![s].pc = "delete"]
    /\ UNCHANGED <<jobs, ec, submissions, sc, execPut, execSend, blobs, results,
                   stageQ, sqsMessagesSent, activeJobs, faults, strays, posts, subs,
                   now, reaped, res, isShuttingDown, web, exited, bus>>

\* sendTaskResult catches a rejected sendMessage: no event, processMessage goes on
WorkerReportFault(s) ==
    /\ worker[s].pc = "report"
    /\ faults > 0
    /\ faults' = faults - 1
    /\ worker' = [worker EXCEPT ![s].pc = "delete"]
    /\ UNCHANGED <<jobs, events, ec, submissions, sc, execPut, execSend, blobs, results,
                   stageQ, sqsMessagesSent, activeJobs, strays, posts, subs,
                   now, reaped, res, isShuttingDown, web, exited, bus>>

\* deleteMessage on the stage queue resolves
WorkerDelete(s) ==
    /\ worker[s].pc = "delete"
    /\ stageQ' = [stageQ EXCEPT ![worker[s].job][s] = @ - 1]
    /\ worker' = [worker EXCEPT ![s] = WorkerIdle]
    /\ UNCHANGED <<jobs, events, ec, submissions, sc, execPut, execSend, blobs, results,
                   sqsMessagesSent, activeJobs, faults, strays, posts, subs,
                   now, reaped, res, isShuttingDown, web, exited, bus>>

\* the payload read, the agent or deleteMessage throws: the catch sends an
\* error event and rethrows; the task message is not deleted
WorkerError(s) ==
    /\ worker[s].pc \in {"run", "delete"}
    /\ faults > 0
    /\ faults' = faults - 1
    /\ events' = events \cup {CompletionEvent(worker[s].job, s, "error", "crash")}
    /\ worker' = [worker EXCEPT ![s] = WorkerIdle]
    /\ UNCHANGED <<jobs, ec, submissions, sc, execPut, execSend, blobs, results,
                   stageQ, sqsMessagesSent, activeJobs, strays, posts, subs,
                   now, reaped, res, isShuttingDown, web, exited, bus>>

Next ==
    \/ \E ev \in EventInputs : DeliverEvent(ev)
    \/ \E m \in events : EventHandle(m)
    \/ EventFetch
    \/ EventPut
    \/ EventSend
    \/ EventPublish
    \/ EventFault
    \/ EventDelete
    \/ EventDeleteFault
    \/ EventCaught
    \/ \E j \in JobIds, brief \in Briefs : HttpPost(j, brief)
    \/ \E j \in JobIds : ExecPut(j)
    \/ \E j \in JobIds : ExecSend(j)
    \/ \E j \in JobIds : ExecFault(j)
    \/ \E m \in SubmissionInputs : EnqueueSubmission(m)
    \/ \E m \in submissions : SubReceive(m)
    \/ SubGet
    \/ SubFault
    \/ SubDelete
    \/ \E s \in Stages, j \in JobIds : WorkerReceive(s, j)
    \/ \E s \in Stages : WorkerRun(s)
    \/ \E s \in Stages : WorkerReport(s)
    \/ \E s \in Stages : WorkerReportFault(s)
    \/ \E s \in Stages : WorkerDelete(s)
    \/ \E s \in Stages : WorkerError(s)

Spec == Init /\ [][Next]_vars

\* ---- the clock and the cleanup timer ------------------------------------------
\* Spec is the run between two firings of the timer with the clock standing
\* still; SpecReaper lets the clock advance and the timer fire at any time
Tick ==
    /\ now < MaxTime
    /\ now' = now + 1
    /\ UNCHANGED <<jobs, events, ec, submissions, sc, execPut, execSend, blobs, results,
                   stageQ, worker, sqsMessagesSent, activeJobs, faults, strays, posts, subs,
                   reaped, res, isShuttingDown, web, exited, bus>>

\* cleanup with the status test left out
cleanupAnyStatus(js, age) ==
    [j \in JobIds |->
        IF js[j] # NoJob /\ now - js[j].startedAt > age THEN NoJob ELSE js[j]]

\* cleanup: the job map after the call
cleanup(js, age) ==
    [j \in JobIds |->
        IF /\ js[j] # NoJob
           /\ now - js[j].startedAt > age
           /\ (js[j].status = "completed" \/ js[j].status = "failed")
        THEN NoJob
        ELSE js[j]]

\* startPeriodicCleanup: the interval callback calls cleanup()
Cleanup ==
    /\ ~isShuttingDown
    /\ jobs' = cleanup(jobs, maxAge)
    /\ reaped' = reaped + Cardinality({j \in JobIds : jobs[j] # NoJob /\ jobs'[j] = NoJob})
    /\ UNCHANGED <<events, ec, submissions, sc, execPut, execSend, blobs, results,
                   stageQ, worker, sqsMessagesSent, activeJobs, faults, strays, posts, subs,
                   now, res, isShuttingDown, web, exited, bus>>

\* the completion events that arrive while the clock runs: one that leaves
\* the job in_progress and two that end it
ReaperEventInputs ==
    {CompletionEvent(j, "research", "success", NoError) : j \in JobIds}
      \cup {CompletionEvent(j, "research", "failure", "crash") : j \in JobIds}
      \cup {CompletionEvent(j, "drawer", "error", "timeout") : j \in JobIds}

InitReaper == Start(ReaperProfile)

NextReaper ==
    \/ Tick
    \/ Cleanup
    \/ \E ev \in ReaperEventInputs : DeliverEvent(ev)
    \/ \E m \in events : EventHandle(m)
    \/ EventFetch
    \/ EventDelete
    \/ \E j \in JobIds, brief \in Briefs : HttpPost(j, brief)
    \/ \E j \in JobIds : ExecPut(j)
    \/ \E j \in JobIds : ExecSend(j)

SpecReaper == InitReaper /\ [][NextReaper]_vars

\* ---- events that arrive after the job's record was evicted -------------------
\* one admitted job whose research worker runs, the clock and the cleanup
\* interval, and the events SQS delivers late or twice
LateEventInputs ==
    {CompletionEvent(j, "research", "success", NoError) : j \in JobIds}
      \cup {CompletionEvent(j, "research", "failure", "crash") : j \in JobIds}

InitLate == Start([strays |-> MaxReaperEvents, faults |-> 0, posts |-> 1, subs |-> 0])

NextLate ==
    \/ Tick
    \/ Cleanup
    \/ \E ev \in LateEventInputs : DeliverEvent(ev)
    \/ \E m \in events : EventHandle(m)
    \/ EventFetch
    \/ EventPut
    \/ EventSend
    \/ EventDelete
    \/ \E j \in JobIds : HttpPost(j, [product |-> TRUE, audience |-> TRUE])
    \/ \E j \in JobIds : ExecPut(j)
    \/ \E j \in JobIds : ExecSend(j)
    \/ \E j \in JobIds : WorkerReceive("research", j)
    \/ WorkerRun("research")
    \/ WorkerReport("research")
    \/ WorkerDelete("research")

SpecLate == InitLate /\ [][NextLate]_vars

\* ---- the events consumer beside a message it cannot parse --------------------
\* the messages that arrive: the poison body, and events whose handling fails
\* (no result to fetch) or succeeds
PoisonRunInputs ==
    {PoisonBody}
      \cup {CompletionEvent(j, "research", "success", NoError) : j \in JobIds}
      \cup {CompletionEvent("J1", "coder", "success", NoError),
            CompletionEvent("J1", "research", "failure", "crash")}

\* sendMessage to the events queue by any producer
Arrive(ev) ==
    /\ strays > 0
    /\ Cardinality(events) < MaxPoisonQueue
    /\ ev \notin events
    /\ events' = events \cup {ev}
    /\ strays' = strays - 1
    /\ UNCHANGED <<jobs, ec, submissions, sc, execPut, execSend, blobs, results,
                   stageQ, worker, sqsMessagesSent, activeJobs, faults, posts, subs,
                   now, reaped, res, isShuttingDown, web, exited, bus>>

InitPoison == Start([strays |-> MaxArrivals, faults |-> MaxFaults, posts |-> 1, subs |-> 0])

NextPoison ==
    \/ \E ev \in PoisonRunInputs : Arrive(ev)
    \/ \E m \in events : EventHandle(m)
    \/ EventFetch
    \/ EventPublish
    \/ EventFault
    \/ EventDelete
    \/ EventDeleteFault
    \/ EventCaught
    \/ \E j \in JobIds : HttpPost(j, [product |-> TRUE, audience |-> TRUE])
    \/ \E j \in JobIds : ExecPut(j)
    \/ \E j \in JobIds : ExecSend(j)

\* receiveMessage returns every visible message in the end (a received message
\* is hidden for its visibility timeout, so the others get their turn), and
\* the event loop runs every continuation of the consumer that is ready
FairPoison ==
    /\ \A m \in PoisonRunInputs \cup {publishDoneBody(j) : j \in JobIds} :
          SF_vars(EventHandle(m))
    /\ WF_vars(EventFetch)
    /\ WF_vars(EventPublish)
    /\ WF_vars(EventDelete)
    /\ WF_vars(EventCaught)

SpecPoison == InitPoison /\ [][NextPoison]_vars /\ FairPoison

\* ---- the run without failures, under fair scheduling --------------------------
\* no S3 or SQS call rejects, no stray event arrives, every task message is
\* answered by its worker; the Node event loop runs every continuation that is
\* ready and every worker polls its queue, the arrival of requests is not forced
InitLive == Start([strays |-> 0, faults |-> 0, posts |-> MaxPosts, subs |-> 0])

NextLive ==
    \/ \E j \in JobIds : HttpPost(j, [product |-> TRUE, audience |-> TRUE])
    \/ \E j \in JobIds : ExecPut(j)
    \/ \E j \in JobIds : ExecSend(j)
    \/ \E m \in events : EventHandle(m)
    \/ EventFetch
    \/ EventPut
    \/ EventSend
    \/ EventPublish
    \/ EventDelete
    \/ \E s \in Stages, j \in JobIds : WorkerReceive(s, j)
    \/ \E s \in Stages : WorkerRun(s)
    \/ \E s \in Stages : WorkerReport(s)
    \/ \E s \in Stages : WorkerDelete(s)

FairLive ==
    /\ WF_vars(\E j \in JobIds : ExecPut(j))
    /\ WF_vars(\E j \in JobIds : ExecSend(j))
    /\ WF_vars(\E m \in events : EventHandle(m))
    /\ WF_vars(EventFetch \/ EventPut \/ EventSend \/ EventPublish \/ EventDelete)
    /\ WF_vars(\E s \in Stages, j \in JobIds : WorkerReceive(s, j))
    /\ WF_vars(\E s \in Stages : WorkerRun(s) \/ WorkerReport(s) \/ WorkerDelete(s))

SpecLive == InitLive /\ [][NextLive]_vars /\ FairLive

\* ---- setupGracefulShutdown ----------------------------------------------------
Signals == {"SIGTERM", "SIGINT"}

\* process.on(signal): shutdown sets the flag and starts the 5 s timer; the
\* HTTP server keeps listening
shutdown(signal) ==
    /\ signal \in Signals
    /\ isShuttingDown' = TRUE
    /\ UNCHANGED <<jobs, events, ec, submissions, sc, execPut, execSend, blobs, results,
                   stageQ, worker, sqsMessagesSent, activeJobs, faults, strays, posts, subs,
                   now, reaped, res, web, exited, bus>>

\* the timer of shutdown fires: process.exit(0)
Exit ==
    /\ isShuttingDown
    /\ exited' = TRUE
    /\ UNCHANGED <<jobs, events, ec, submissions, sc, execPut, execSend, blobs, results,
                   stageQ, worker, sqsMessagesSent, activeJobs, faults, strays, posts, subs,
                   now, reaped, res, isShuttingDown, web, bus>>

InitShutdown == Start([strays |-> 0, faults |-> 0, posts |-> MaxPosts, subs |-> 0])

\* a process that has exited runs nothing
NextShutdown ==
    \/ ~exited /\ \E signal \in Signals : shutdown(signal)
    \/ ~exited /\ Exit
    \/ ~exited /\ \E j \in JobIds, b \in Briefs : HttpPost(j, b)
    \/ ~exited /\ \E j \in JobIds : ExecPut(j)
    \/ ~exited /\ \E j \in JobIds : ExecSend(j)
    \/ ~exited /\ \E s \in Stages, j \in JobIds : WorkerReceive(s, j)
    \/ ~exited /\ \E m \in events : EventHandle(m)
    \/ ~exited /\ EventDelete

SpecShutdown == InitShutdown /\ [][NextShutdown]_vars

\* ---- sendTaskMessage called on its own --------------------------------------
SendTask(jobId, task, payload, putOk, sendOk) ==
    /\ bus.left > 0
    /\ bus' = sendTaskMessage(bus, jobId, task, payload, putOk, sendOk)
    /\ UNCHANGED <<jobs, events, ec, submissions, sc, execPut, execSend, blobs, results,
                   stageQ, worker, sqsMessagesSent, activeJobs, faults, strays, posts, subs,
                   now, reaped, res, isShuttingDown, web, exited>>

InitBus == Start([strays |-> 0, faults |-> 0, posts |-> 0, subs |-> 0])

NextBus ==
    \E j \in JobIds, t \in Stages, x \in Payloads, putOk \in BOOLEAN, sendOk \in BOOLEAN :
        SendTask(j, t, x, putOk, sendOk)

SpecBus == InitBus /\ [][NextBus]_vars

\* ---- agent-web: the clock and the POST handler ------------------------------
WebTick ==
    /\ web.now < MaxWebTime
    /\ web' = [web EXCEPT !.now = @ + 1]
    /\ UNCHANGED <<jobs, events, ec, submissions, sc, execPut, execSend, blobs, results,
                   stageQ, worker, sqsMessagesSent, activeJobs, faults, strays, posts, subs,
                   now, reaped, res, isShuttingDown, exited, bus>>

\* POST: checkRateLimit, then (with probability 0.01) cleanupRateLimitStore,
\* then validation, then the job is stored and handed to the task-router,
\* which answers (201) or not (500)
WebPost(ip, brief, sweep, routerOk) ==
    /\ web.posts > 0
    /\ LET r == checkRateLimit(web.rateLimitStore, ip, web.now)
       IN IF ~r.ret
          THEN web' = [web EXCEPT !.posts = @ - 1,
                                  !.rateLimitStore = r.store,
                                  !.res = [status |-> "429", retryAfter |-> "60", ip |-> ip]]
          ELSE LET store == IF sweep THEN cleanupRateLimitStore(r.store, web.now) ELSE r.store
                   status == IF ~brief.product \/ ~brief.audience THEN "400"
                             ELSE IF routerOk THEN "201" ELSE "500"
               IN web' = [web EXCEPT !.posts = @ - 1,
                                     !.rateLimitStore = store,
                                     !.passed[ip] = web.now,
                                     !.created = IF status = "201" THEN @ + 1 ELSE @,
                                     !.res = [status |-> status, retryAfter |-> "none",
                                              ip |-> ip]]
    /\ UNCHANGED <<jobs, events, ec, submissions, sc, execPut, execSend, blobs, results,
                   stageQ, worker, sqsMessagesSent, activeJobs, faults, strays, posts, subs,
                   now, reaped, res, isShuttingDown, exited, bus>>

InitWeb == Start([strays |-> 0, faults |-> 0, posts |-> 0, subs |-> 0])

NextWeb ==
    \/ WebTick
    \/ \E ip \in ClientIPs, brief \in Briefs, sweep \in BOOLEAN, routerOk \in BOOLEAN :
          WebPost(ip, brief, sweep, routerOk)

SpecWeb == InitWeb /\ [][NextWeb]_vars

\* ---- vocabulary of the properties --------------------------------------------
IsPrefix(s, t) == Len(s) <= Len(t) /\ \A i \in 1..Len(s) : s[i] = t[i]

Known(j) == jobs[j] # NoJob

\* this step is the events consumer taking a completion event of an existing
\* job into its handler (the message is ec'.msg)
HandlesEventOfJob ==
    /\ ec.pc = "idle"
    /\ ec'.pc # "idle"
    /\ ec'.msg.job_id \in JobIds
    /\ Known(ec'.msg.job_id)

\* this step is the events consumer enqueueing a stage task message
ConsumerEnqueues == ec.pc = "send" /\ stageQ' # stageQ

\* the events consumer is inside the handler of an event of job j
Handling(j) == ec.pc # "idle" /\ ec.msg.job_id = j

\* C1: in every reachable state, every job's completedTasks is a prefix of
\* [research, product_manager, drawer, designer, coder]
C1_CompletedTasksIsPrefix ==
    \A j \in JobIds : Known(j) => IsPrefix(jobs[j].completedTasks, requiredTasks)

\* C2: a failure or error event makes the job failed in that step, and no
\* completion event handled while the job is failed changes its record
C2_FailedIsTerminal ==
    [][HandlesEventOfJob =>
         LET m == ec'.msg
         IN /\ m.status \in {"failure", "error"} => jobs'[m.job_id].status = "failed"
            /\ jobs[m.job_id].status = "failed" => jobs'[m.job_id] = jobs[m.job_id]]_vars

\* C3: an admission (a step that starts executeJob for a job id) happens only
\* for a job id that has no record: a second admission of the same id is
\* rejected and does not replace the record
C3_AdmittedOnce ==
    [][\A j \in JobIds : execPut'[j] > execPut[j] => ~Known(j)]_vars

\* C4: however often the success event of a stage is delivered, the task
\* message of the stage after it is enqueued at most once for the job: the
\* events consumer enqueues it only when none was enqueued for the job before
C4_NextStageEnqueuedOnce ==
    [][ConsumerEnqueues => sqsMessagesSent[ec.msg.job_id][ec.next] = 0]_vars

\* C5: once the coder success event has made a job completed and its handler
\* has returned, exactly one job_completed message has been sent for the job
C5_OneJobCompletedMessage ==
    \A j \in JobIds :
        (/\ Known(j)
         /\ jobs[j].status = "completed"
         /\ jobs[j].completedTasks = requiredTasks
         /\ ~Handling(j))
        => sqsMessagesSent[j]["events"] = 1

\* C6: in every reachable state, a job's status is completed if and only if
\* its completedTasks holds all five stages
C6_CompletedIffAllStages ==
    \A j \in JobIds :
        Known(j) => (jobs[j].status = "completed" <=> allTasksComplete(jobs[j].completedTasks))

\* C7: the events consumer enqueues the task of a stage only in the handler
\* of the success event of the stage before it, and only if that stage was
\* the next expected one of the job when the event was handled
C7_DispatchInCanonicalOrder ==
    [][ConsumerEnqueues => getNextTasks(ec.before) = <<ec.msg.task_type>>]_vars

\* C8: the events consumer enqueues no stage task message for a job whose
\* status is failed
C8_NoDispatchAfterFailed ==
    [][ConsumerEnqueues
       => ~(Known(ec.msg.job_id) /\ jobs[ec.msg.job_id].status = "failed")]_vars

\* C9: no completion event handled while the job is completed changes its record
C9_CompletedIsImmutable ==
    [][(HandlesEventOfJob /\ jobs[ec'.msg.job_id].status = "completed")
       => jobs'[ec'.msg.job_id] = jobs[ec'.msg.job_id]]_vars

\* C10: a message whose handling raised an error is not deleted from the
\* events queue
C10_FailedHandlingKeepsMessage ==
    [][ec.failed => ec.msg \in events']_vars

\* C11: every task message on a stage queue names a payload that is in the
\* blob store, and a task message is sent only when its payload is already
\* stored (a rejected store sends nothing)
C11_PayloadStoredBeforeSend ==
    /\ [](\A j \in JobIds, s \in Stages : stageQ[j][s] > 0 => <<j, s>> \in blobs)
    /\ [][\A j \in JobIds, s \in Stages :
            stageQ'[j][s] > stageQ[j][s] => <<j, s>> \in blobs]_vars

\* a task message sent by the events consumer is on its stage queue
C11_Witness ==
    \E j \in JobIds :
        /\ stageQ[j]["product_manager"] > 0
        /\ sqsMessagesSent[j]["product_manager"] > 0
        /\ <<j, "product_manager">> \in blobs

\* C12: handling a completion event of an existing job leaves a record that
\* handling the same event again does not change, and a success event whose
\* stage is already in completedTasks changes nothing in the record
C12_RedeliveryChangesNothing ==
    [][HandlesEventOfJob =>
         LET m == ec'.msg
         IN /\ completeTask(jobs', m).jobs = jobs'
            /\ (m.status = "success" /\ includes(jobs[m.job_id].completedTasks, m.task_type))
                 => jobs'[m.job_id] = jobs[m.job_id]]_vars

\* C13: a completion event whose job_id has no record creates no record and
\* leaves the counts of getStats as they were, and when its handler has
\* returned and deleteMessage resolves the message is off the events queue
C13_UnknownJobEventDropped ==
    /\ [][(ec.pc = "idle" /\ ec'.pc # "idle" /\ ec'.msg # PoisonBody /\ ~ec'.known)
            => /\ jobs' = jobs
               /\ getStats(jobs') = getStats(jobs)]_vars
    /\ [][(ec.pc # "idle" /\ ec'.pc = "idle" /\ ec.msg # PoisonBody /\ ~ec.known
            /\ faults' = faults)
            => ec.msg \notin events']_vars

\* the handler of a success event for a job id without a record has returned
C13_Witness ==
    /\ ec.pc = "delete"
    /\ ~ec.known
    /\ ec.msg.job_id \in JobIds
    /\ ec.msg.status = "success"
    /\ jobs[ec.msg.job_id] = NoJob

\* C14: when the events consumer has finished with a message whose body is
\* not JSON, the message is off the events queue
C14_PoisonMessageDeleted ==
    [][(ec.pc # "idle" /\ ec'.pc = "idle" /\ ec.msg = PoisonBody /\ faults' = faults)
        => PoisonBody \notin events']_vars

\* this step removes the record of job j
Evicts(j) == jobs[j] # NoJob /\ jobs'[j] = NoJob

\* C15: a record is removed only when the job's completedAt is more than
\* maxAge in the past
C15_EvictsByCompletedAt ==
    [][\A j \in JobIds :
          Evicts(j) => (jobs[j].completedAt # NoDate /\ now - jobs[j].completedAt > maxAge)]_vars

\* C16: a record is removed only when the job's status is completed or failed
C16_EvictsOnlyTerminal ==
    [][\A j \in JobIds : Evicts(j) => jobs[j].status \in {"completed", "failed"}]_vars

\* cleanup has removed a record while a job older than maxAge that is still
\* in_progress has stayed
C16_Witness ==
    /\ reaped > 0
    /\ \E j \in JobIds :
          /\ jobs[j] # NoJob
          /\ jobs[j].status = "in_progress"
          /\ now - jobs[j].startedAt > maxAge

\* this step answers a POST /api/router/jobs
Answers == posts' < posts

\* C17: when a POST is answered 201 for a job, that job's research payload is
\* stored, its research task message has been sent, and no dispatch of the
\* job is still under way
C17_DispatchedBefore201 ==
    [][(Answers /\ res'.status = "201")
        => LET j == res'.job_id
           IN /\ <<j, "research">> \in blobs'
              /\ sqsMessagesSent'[j]["research"] > 0
              /\ execPut'[j] = 0
              /\ execSend'[j] = 0]_vars

\* C20: a POST whose body lacks product or audience is answered 400 and
\* changes neither the job map nor the blob store nor any queue
C20_InvalidPostChangesNothing ==
    [][\A j \in JobIds, b \in Briefs :
          ((~b.product \/ ~b.audience) /\ HttpPost(j, b))
          => /\ res'.status = "400"
             /\ UNCHANGED <<jobs, blobs, results, stageQ, events, submissions,
                            execPut, execSend, sqsMessagesSent, activeJobs>>]_vars

\* a POST was answered 400 and there is no job record
C20_Witness ==
    /\ res.status = "400"
    /\ \A j \in JobIds : jobs[j] = NoJob
    /\ blobs = {}

\* this step is the router-jobs consumer deleting the message in its hand
DeletesSubmission == sc.pc = "delete" /\ sc.msg \in submissions /\ sc.msg \notin submissions'

\* this step is the router-jobs consumer admitting the job of a message
AdmitsSubmission == sc.pc # "delete" /\ sc'.pc = "delete"

\* C18: a submission message is deleted only when the dispatch of its job's
\* research stage has finished with the task message sent
C18_SubmissionDeletedAfterDispatch ==
    [][DeletesSubmission
        => LET j == sc.msg.job_id
           IN /\ execPut[j] = 0
              /\ execSend[j] = 0
              /\ sqsMessagesSent[j]["research"] > 0]_vars

\* C19: the router-jobs consumer admits a job only if the brief of its
\* message (inline, or stored under payload_key) has product and audience, as
\* the POST handler requires; the message of any other brief is not deleted
C19_QueueValidatesLikeHttp ==
    /\ [][AdmitsSubmission => (sc'.msg.brief.product /\ sc'.msg.brief.audience)]_vars
    /\ [][DeletesSubmission => (sc.msg.brief.product /\ sc.msg.brief.audience)]_vars

\* this step is agent-web answering a POST of ip
WebAnswers(ip) == web'.posts < web.posts /\ web'.res.ip = ip

\* C21: a POST of an ip is let through only if the last one let through from
\* that ip is at least RATE_LIMIT_WINDOW in the past, and a POST arriving
\* earlier than that is answered 429 with Retry-After 60 and creates no job
C21_OnePostPerWindow ==
    [][\A ip \in ClientIPs :
          WebAnswers(ip) =>
             IF web.passed[ip] # NoStamp /\ web.now - web.passed[ip] < RATE_LIMIT_WINDOW
             THEN /\ web'.res.status = "429"
                  /\ web'.res.retryAfter = "60"
                  /\ web'.created = web.created
                  /\ web'.passed = web.passed
                  /\ jobs' = jobs
             ELSE /\ web'.res.status # "429"
                  /\ web'.passed[ip] = web.now]_vars

\* an ip was answered 429 after an earlier request of it was let through, and
\* a later request of it was let through again
C21_Witness ==
    \E ip \in ClientIPs :
        /\ web.res.status = "429"
        /\ web.res.ip = ip
        /\ web.passed[ip] > 1
        /\ web.created > 0

\* C22: every task listed by GET /api/router/tasks has progress
\* round(100 * |completedTasks| / 5), which lies between 0 and 100 and is 100
\* exactly when all five stages are complete
C22_ProgressIsShareOfFive ==
    \A t \in tasks(jobs) :
        LET done == jobs[t.job_id].completedTasks
        IN /\ t.progress = round(100 * Len(done), Len(requiredTasks))
           /\ t.progress >= 0
           /\ t.progress <= 100
           /\ (t.progress = 100 <=> allTasksComplete(done))

\* C23: with no failure and fair scheduling, every admitted job eventually
\* has status completed with all five stages in completedTasks
C23_AdmittedJobCompletes ==
    \A j \in JobIds :
        (jobs[j] # NoJob)
          ~> (jobs[j] # NoJob /\ jobs[j].status = "completed"
              /\ allTasksComplete(jobs[j].completedTasks))

\* a job has run through the five stages and is completed
C23_Witness ==
    \E j \in JobIds :
        /\ jobs[j] # NoJob
        /\ jobs[j].status = "completed"
        /\ jobs[j].completedTasks = requiredTasks
        /\ \A s \in Stages : stageQ[j][s] = 0

\* C24: a job's error field is set only if the job's status is failed
C24_ErrorOnlyWhenFailed ==
    \A j \in JobIds :
        (jobs[j] # NoJob /\ jobs[j].error # NoError) => jobs[j].status = "failed"

\* the consumer is handling an in_progress completion event
HandlingInProgress ==
    ec.pc # "idle" /\ ec.msg.status = "in_progress"

\* C25: the handler of an in_progress completion event changes no job record
\* and dispatches nothing (no blob, no stage message); it goes straight to
\* deleteMessage, which removes the message from the events queue
C25_InProgressIsInformational ==
    [][/\ (ec.pc = "idle" /\ HandlingInProgress')
            => /\ ec'.pc = "delete"
               /\ UNCHANGED <<jobs, blobs, stageQ, sqsMessagesSent, events>>
       /\ (HandlingInProgress /\ ec' # ec)
            => /\ ec.pc = "delete"
               /\ ec' = Idle
               /\ UNCHANGED <<jobs, blobs, stageQ, sqsMessagesSent>>
               /\ faults' = faults => ec.msg \notin events']_vars

\* an in_progress event of a known, running job has been handled and awaits
\* its deleteMessage
C25_Witness ==
    /\ HandlingInProgress
    /\ ec.pc = "delete"
    /\ ec.known
    /\ jobs[ec.msg.job_id].status = "in_progress"
    /\ ec.msg \in events

\* C26: once a SIGTERM or SIGINT has been received, no POST /api/router/jobs
\* admits a job before the process exits
C26_NoAdmissionWhileDraining ==
    [][(isShuttingDown /\ Answers) => res'.status # "201"]_vars

\* this step is a sendTaskMessage that resolves, with the arguments of the
\* resolved call before it
DispatchesAgain ==
    /\ bus'.n = bus.n + 1
    /\ bus'.last # NoDispatch
    /\ bus'.last = bus.last

\* C27: a second dispatch of the same (job, stage, input) leaves the blob
\* store as the first left it, with the one artifact of the stage under
\* {job_id}/{stage}.json holding the input; it only adds a second task message
\* with the same payload key to the stage queue
C27_RedispatchKeepsBlobStore ==
    [][DispatchesAgain
         => /\ bus'.objects = bus.objects
            /\ bus'.objects[payloadKey(bus.last.jobId, bus.last.task)]
                  = stringify(bus.last.payload)
            /\ Len(bus'.sent) = Len(bus.sent) + 1
            /\ bus'.sent[Len(bus'.sent)].payload_key = bus.sent[Len(bus.sent)].payload_key
            /\ bus'.sent[Len(bus'.sent)].task_type = bus.sent[Len(bus.sent)].task_type
            /\ bus'.sent[Len(bus'.sent)].job_id = bus.sent[Len(bus.sent)].job_id]_vars

\* the same dispatch has resolved twice in a row: two messages, one artifact
C27_Witness ==
    /\ Len(bus.sent) = 2
    /\ bus.sent[1].payload_key = bus.sent[2].payload_key
    /\ bus.last # NoDispatch
    /\ bus.n = 2
    /\ Cardinality({k \in Keys : bus.objects[k] # NoObject}) = 1
    /\ bus.objects[payloadKey(bus.last.jobId, bus.last.task)] = stringify(bus.last.payload)

\* C28: the events consumer enqueues a stage task message only for a job id
\* that had a record in the job state index when the handler took the event:
\* a success event of an unknown job dispatches nothing
C28_NoDispatchForUnknownJob ==
    [][ConsumerEnqueues => ec.known]_vars

\* this step sends a job_completed message for job j to the events queue
Publishes(j) == sqsMessagesSent'[j]["events"] > sqsMessagesSent[j]["events"]

\* C29: a job_completed message is sent for a job that had a record when the
\* handler took the event only while that job's status is completed (a coder success event that arrives while
\* earlier stages are missing announces nothing)
C29_AnnouncedOnlyWhenCompleted ==
    [][\A j \in JobIds :
          (Publishes(j) /\ ec.known /\ Known(j)) => jobs[j].status = "completed"]_vars

\* something is still under way for job j: executeJob or a handler is running
\* for it, a worker holds one of its tasks, or a message for it is on a queue
UnderWay(j) ==
    \/ execPut[j] > 0 \/ execSend[j] > 0
    \/ Handling(j)
    \/ sc.pc # "idle" /\ sc.msg.job_id = j
    \/ \E s \in Stages : stageQ[j][s] > 0 \/ worker[s].job = j
    \/ \E m \in events : m.job_id = j
    \/ \E m \in submissions : m.job_id = j

\* C30: a job that is in_progress is never stranded: a handler is running for
\* it, or a stage task, completion or submission message for it is still on a
\* queue, so that a dispatch that failed is tried again
C30_InProgressJobNotStranded ==
    \A j \in JobIds : (Known(j) /\ jobs[j].status = "in_progress") => UnderWay(j)

\* C31: a stage worker goes on to delete its task message only through a step
\* that has placed the success event of that job and stage on the events queue;
\* when the event cannot be sent the task message stays on the stage queue
C31_TaskDeletedAfterSuccessEvent ==
    [][\A s \in Stages :
          (worker[s].pc = "report" /\ worker'[s].pc # "report")
            => \/ CompletionEvent(worker[s].job, s, "success", NoError) \in events'
               \/ (worker'[s].pc # "delete" /\ stageQ' = stageQ)]_vars

\* m is the success event of a stage whose result the task-router reads
FeedsNextStage(m) ==
    /\ m.event_type = "completion"
    /\ m.status = "success"
    /\ m.task_type \in Stages \ {"coder"}

\* C32: while a worker's success event of a stage is on the events queue, the
\* result artifact execute<Next>Task reads for it is stored, and the fetch the
\* handler makes for such an event finds the key
C32_ResultStoredBeforeSuccessEvent ==
    /\ [](\A m \in events : FeedsNextStage(m) => inputKey(m.job_id, m.task_type) \in results)
    /\ [][(ec.pc = "fetch" /\ ec' # ec) => ec'.pc = "put"]_vars

\* the handler of the product manager's success event has read
\* product-manager-result.json and goes on to dispatch the drawer
C32_Witness ==
    /\ ec.pc = "put"
    /\ ec.msg.task_type = "product_manager"
    /\ ec.next = "drawer"
    /\ ec.msg \in events
    /\ inputKey(ec.msg.job_id, "product_manager") \in results

\* the consumer is handling the task-router's own job_completed announcement
HandlingAnnouncement == ec.pc # "idle" /\ ec.msg.event_type = "job_completed"

\* C33: the handler of a job_completed announcement changes no job record,
\* stores no payload, sends no message and goes straight to deleteMessage,
\* which removes the announcement from the events queue
C33_AnnouncementIsIgnored ==
    [][/\ (ec.pc = "idle" /\ HandlingAnnouncement')
            => /\ ec'.pc = "delete"
               /\ UNCHANGED <<jobs, blobs, stageQ, sqsMessagesSent, events, activeJobs>>
       /\ (HandlingAnnouncement /\ ec' # ec)
            => /\ ec.pc = "delete"
               /\ ec' = Idle
               /\ UNCHANGED <<jobs, blobs, stageQ, sqsMessagesSent, activeJobs>>
               /\ faults' = faults => ec.msg \notin events']_vars

\* the announcement of a job that has a record has been handled and awaits
\* its deleteMessage
C33_Witness ==
    /\ HandlingAnnouncement
    /\ ec.pc = "delete"
    /\ ec.msg.jobId \in JobIds
    /\ Known(ec.msg.jobId)
    /\ ec.msg \in events

\* C34: with a message that cannot be parsed on the events queue, and with
\* handlers that fail, every other message on the queue is eventually taken
\* into the handler
C34_PoisonDoesNotStopConsumer ==
    \A m \in PoisonRunInputs \ {PoisonBody} :
        (m \in events) ~> (ec.pc # "idle" /\ ec.msg = m)

\* the poison message is on the queue, and the handling of another message
\* has failed and is about to be acknowledged
C34_Witness ==
    /\ PoisonBody \in events
    /\ ec.pc = "delete"
    /\ ec.msg # PoisonBody
    /\ ec.failed
    /\ strays = 0

\* a record of the job state index as its operations leave it
WellFormed(job) ==
    /\ job.status \in {"queued", "in_progress", "completed", "failed"}
    /\ Cardinality(Range(job.completedTasks)) = Len(job.completedTasks)
    /\ Range(job.completedTasks) \subseteq TaskTypes
    /\ job.completedAt # NoDate => job.status \in {"completed", "failed"}

\* C35: the events consumer handles one message at a time: it keeps its
\* message until the handler and the deleteMessage attempt are over, and it
\* writes the job state index only in the step that takes the message, never
\* after an await; a POST admitted while the handler waits leaves the consumer
\* where it is and changes only the record of the job it admits, and every
\* record stays well formed
C35_ConsumerSerializedIndexSafe ==
    /\ [](\A j \in JobIds : Known(j) => WellFormed(jobs[j]))
    /\ [][/\ (ec.pc # "idle" /\ ec'.pc # "idle") => ec'.msg = ec.msg
          /\ (ec.pc # "idle" /\ ec'.pc = "idle") => ec.pc \in {"delete", "caught"}
          /\ (ec.pc # "idle" /\ ec' # ec) => jobs' = jobs
          /\ (ec.pc # "idle" /\ Answers)
               => /\ ec' = ec
                  /\ \A j \in JobIds :
                        jobs'[j] # jobs[j]
                          => /\ res'.status = "201"
                             /\ res'.job_id = j
                             /\ jobs'[j].status = "in_progress"
                             /\ jobs'[j].completedTasks = <<>>]_vars

\* a POST for the job of the event in hand was admitted while the handler was
\* waiting for S3 or SQS: the record is fresh although the handler had
\* recorded the stage
C35_Witness ==
    /\ ec.pc \in {"put", "send"}
    /\ ec.known
    /\ ec.msg.status = "success"
    /\ res.status = "201"
    /\ res.job_id = ec.msg.job_id
    /\ jobs[ec.msg.job_id].status = "in_progress"
    /\ jobs[ec.msg.job_id].completedTasks = <<>>

\* C36: no job is observable in status queued: between any two operations
\* the queued count of getStats is 0 and no record has status queued, while
\* the body of a 201 response says "queued"
C36_QueuedNeverObservable ==
    /\ getStats(jobs).queued = 0
    /\ \A j \in JobIds : Known(j) => jobs[j].status # "queued"
    /\ res.status = "201" => res.body = "queued"

\* a POST has just been answered 201 "queued" and the job it admitted is
\* in_progress, its executeJob not yet past the first await
C36_Witness ==
    /\ res.status = "201"
    /\ res.body = "queued"
    /\ Known(res.job_id)
    /\ jobs[res.job_id].status = "in_progress"
    /\ execPut[res.job_id] > 0
    /\ getStats(jobs).in_progress = getStats(jobs).total

\* C37: the activeJobs gauge, which is to equal the number of admitted jobs
\* that are not terminal, is never negative
C37_GaugeNeverNegative == activeJobs >= 0

====
